---- MODULE Spec2Model ----
(***************************************************************************)
(* bn254.rs: guest-side bindings that raise the BN254 scalar traps of a    *)
(* zkVM, and the helper that stages the operands of the 256-bit            *)
(* multiply-add.                                                           *)
(*                                                                         *)
(* Memory is word addressed.  Addresses 0 .. MemWords-1 belong to the      *)
(* caller; the 2*N words from ScratchBase on are the stack slot of the     *)
(* local concat_y_z of syscall_bn254_muladd_entrypoint.  A pointer is the  *)
(* address of the first word it refers to.  A 32-bit limb is scaled down   *)
(* to a digit in 0 .. LimbBase-1, so "mod 2^256" reads "mod LimbBase^N".   *)
(***************************************************************************)
EXTENDS Integers, Sequences, FiniteSets, TLC

VARIABLES target, mem, entry, call, pc, log

vars == <<target, mem, entry, call, pc, log>>

-----------------------------------------------------------------------------
(* Bounds of the model *)

\* a limb holds a digit below LimbBase (the scaled-down 2^32)
LimbBase == 8

\* number of words of caller memory
MemWords == 32

\* the operation selectors handed to the entrypoint are 0 .. MaxOp
MaxOp == 1

-----------------------------------------------------------------------------
(* Constants of bn254.rs *)

RECURSIVE HexValue(_)
\* the value of a hexadecimal literal, given as its digits, most significant first
HexValue(digits) ==
    IF digits = <<>> THEN 0
    ELSE 16 * HexValue(SubSeq(digits, 1, Len(digits) - 1)) + digits[Len(digits)]

\* 0x00_01_01_80
BN254_SCALAR_MUL == HexValue(<<0, 0, 0, 1, 0, 1, 8, 0>>)

\* 0x00_01_01_81
BN254_SCALAR_MAC == HexValue(<<0, 0, 0, 1, 0, 1, 8, 1>>)

\* a slip in the last digit of the multiply-add code
BN254_MULADD_Typo == HexValue(<<0, 0, 0, 1, 0, 1, 1, 14>>)

\* 0x00_01_01_1F
BN254_MULADD == HexValue(<<0, 0, 0, 1, 0, 1, 1, 15>>)

\* the number of limbs in a "uint256"
N == 8

-----------------------------------------------------------------------------
(* Memory *)

\* content of a word no one has written yet (MaybeUninit::uninit())
Uninit == -1

\* address of the local concat_y_z, outside the caller's memory
ScratchBase == MemWords

Addr == 0 .. (MemWords + 2 * N - 1)

\* the addresses at which a caller buffer may start: they overlap wholly,
\* by half, or not at all
Bases == {a \in 0 .. (MemWords - N) : a % (N \div 2) = 0}

\* the n words starting at address base, as a sequence
Words(m, base, n) == [i \in 1 .. n |-> m[base + i - 1]]

\* m with the words ws stored from address base on
Store(m, base, ws) ==
    [a \in DOMAIN m |->
        IF a >= base /\ a < base + Len(ws) THEN ws[a - base + 1] ELSE m[a]]

\* do the n-word buffers at a and b share a word
Overlap(a, b, n) == a < b + n /\ b < a + n

-----------------------------------------------------------------------------
(* The host behind the trap: little-endian multi-limb arithmetic *)

RECURSIVE ColumnSum(_, _, _, _)
\* a[1]*b[k] + a[2]*b[k-1] + ... + a[i]*b[k+1-i]
ColumnSum(a, b, k, i) ==
    IF i = 0 THEN 0 ELSE a[i] * b[k + 1 - i] + ColumnSum(a, b, k, i - 1)

RECURSIVE CarryIn(_, _, _, _)
\* the carry that reaches limb k of a*b + r
CarryIn(r, a, b, k) ==
    IF k = 1 THEN 0
    ELSE (r[k - 1] + ColumnSum(a, b, k - 1, k - 1) + CarryIn(r, a, b, k - 1))
             \div LimbBase

\* the N low limbs of a*b + r
HostMulAdd(r, a, b) ==
    [k \in 1 .. N |->
        (r[k] + ColumnSum(a, b, k, k) + CarryIn(r, a, b, k)) % LimbBase]

\* the reference host: what memory holds when the trap returns
Host(code, args, m) ==
    CASE code = BN254_MULADD ->
            Store(m, args[1],
                  HostMulAdd(Words(m, args[1], N), Words(m, args[2], N),
                             Words(m, args[2] + N, N)))
      [] code = BN254_SCALAR_MUL ->
            Store(m, args[1],
                  HostMulAdd([k \in 1 .. N |-> 0], Words(m, args[1], N),
                             Words(m, args[2], N)))
      [] code = BN254_SCALAR_MAC ->
            Store(m, args[1],
                  HostMulAdd(Words(m, args[1], N), Words(m, args[2], N),
                             Words(m, args[3], N)))
      [] OTHER -> m

-----------------------------------------------------------------------------
(* What the guest does, as steps on s = [mem, log] *)

CopyEvent(src, dst, n) == [ev |-> "copy", code |-> 0, args |-> <<src, dst, n>>]

EcallEvent(code, args) == [ev |-> "ecall", code |-> code, args |-> args]

\* core::ptr::copy(src, dst, n): a memmove, the source is read before the
\* destination is written
PtrCopy(s, src, dst, n) ==
    [mem |-> Store(s.mem, dst, Words(s.mem, src, n)),
     log |-> Append(s.log, CopyEvent(src, dst, n))]

\* the ecall instruction: control passes to the host, which returns
Ecall(s, code, args) ==
    [mem |-> Host(code, args, s.mem),
     log |-> Append(s.log, EcallEvent(code, args))]

\* crate::syscall!(code, args..)
Syscall(s, code, args) == Ecall(s, code, args)

\* the operands in the wrong registers
syscall_bn254_scalar_mul_Swapped(s, p, q) ==
    Syscall(s, BN254_SCALAR_MUL, <<q, p>>)

\* syscall_bn254_scalar_mul(p, q)
syscall_bn254_scalar_mul(s, p, q) == Syscall(s, BN254_SCALAR_MUL, <<p, q>>)

\* syscall_bn254_scalar_mac(ret, a, b): the body names p and q, which are
\* no parameters of it
syscall_bn254_scalar_mac(s, ret, a, b, p, q) == Syscall(s, BN254_SCALAR_MUL, <<p, q>>)

\* the asm block without its cfg attribute
syscall_bn254_muladd_Ungated(s, x, y, tgt) == Ecall(s, BN254_MULADD, <<x, y>>)

\* syscall_bn254_muladd(x, y): the asm block exists on the zkVM target only
syscall_bn254_muladd(s, x, y, tgt) ==
    IF tgt = "zkvm" THEN Ecall(s, BN254_MULADD, <<x, y>>) ELSE s

\* z moved into result before x is staged
EntryCopyX_AfterZ(s, c) ==
    PtrCopy(PtrCopy(s, c.z, c.result, N), c.x, ScratchBase, N)

\* y staged without .add(N)
EntryCopyY_NoOffset(s, c) == PtrCopy(s, c.y, ScratchBase, N)

\* the multiplicand loaded as the addend
EntryCopyZ_FromX(s, c) == PtrCopy(s, c.x, c.result, N)

\* source and destination of the last copy exchanged
EntryCopyZ_Reversed(s, c) == PtrCopy(s, c.result, c.z, N)

\* the operands of the trap exchanged
EntryMulAdd_Swapped(s, c, tgt) ==
    syscall_bn254_muladd(s, ScratchBase, c.result, tgt)

\* the trap raised for selector 0 only
EntryMulAdd_OpGated(s, c, tgt) ==
    IF c.op = 0 THEN syscall_bn254_muladd(s, c.result, ScratchBase, tgt) ELSE s

\* the statements of syscall_bn254_muladd_entrypoint, c being its arguments
EntryCopyX(s, c) == PtrCopy(s, c.x, ScratchBase, N)

EntryCopyY(s, c) == PtrCopy(s, c.y, ScratchBase + N, N)

EntryCopyZ(s, c) == PtrCopy(s, c.z, c.result, N)

EntryMulAdd(s, c, tgt) == syscall_bn254_muladd(s, c.result, ScratchBase, tgt)

\* the whole call
syscall_bn254_muladd_entrypoint(s, c, tgt) ==
    EntryMulAdd(EntryCopyZ(EntryCopyY(EntryCopyX(s, c), c), c), c, tgt)

-----------------------------------------------------------------------------
(* The states *)

\* every half buffer differs from every other, the high limbs are all ones
ImageTagged ==
    [a \in Addr |->
        IF a >= MemWords THEN Uninit
        ELSE IF a % (N \div 2) = 0 THEN ((a \div (N \div 2)) + 1) % LimbBase
        ELSE IF a % (N \div 2) = 1
             THEN (((a \div (N \div 2)) + 1) \div LimbBase) % LimbBase
        ELSE LimbBase - 1]

\* the small integers 1, 2, 3 in limb 0 of the first three buffers
ImageSmall ==
    [a \in Addr |->
        IF a >= MemWords THEN Uninit
        ELSE IF a = 0 THEN 1
        ELSE IF a = N THEN 2
        ELSE IF a = 2 * N THEN 3
        ELSE 0]

\* digits without a period
ImageMixed ==
    [a \in Addr |->
        IF a >= MemWords THEN Uninit ELSE (a * a + (a \div 3) + 1) % LimbBase]

Images == {ImageTagged, ImageSmall, ImageMixed}

Targets == {"zkvm", "other"}

OpSel == 0 .. MaxOp

\* the guest's view of the machine
Now == [mem |-> mem, log |-> log]

Init ==
    /\ target \in Targets
    /\ mem \in Images
    /\ entry = mem
    /\ call = [fn |-> "none"]
    /\ pc = "idle"
    /\ log = <<>>

\* a guest program calls syscall_bn254_scalar_mul(p, q); p and q do not
\* overlap (# Safety)
ScalarMulCall ==
    /\ pc = "idle"
    /\ \E p \in Bases, q \in Bases :
          /\ ~Overlap(p, q, N)
          /\ call' = [fn |-> "scalar_mul", p |-> p, q |-> q]
          /\ LET t == syscall_bn254_scalar_mul(Now, p, q)
             IN  mem' = t.mem /\ log' = t.log
    /\ pc' = "done"
    /\ UNCHANGED <<target, entry>>

\* a guest program calls syscall_bn254_scalar_mac(ret, a, b); ret, a and b
\* do not overlap (# Safety); p and q are whatever the names resolve to
ScalarMacCall ==
    /\ pc = "idle"
    /\ \E ret \in Bases, a \in Bases, b \in Bases, p \in Bases, q \in Bases :
          /\ ~Overlap(ret, a, N) /\ ~Overlap(ret, b, N) /\ ~Overlap(a, b, N)
          /\ call' = [fn |-> "scalar_mac", ret |-> ret, a |-> a, b |-> b]
          /\ LET t == syscall_bn254_scalar_mac(Now, ret, a, b, p, q)
             IN  mem' = t.mem /\ log' = t.log
    /\ pc' = "done"
    /\ UNCHANGED <<target, entry>>

\* a guest program calls syscall_bn254_muladd(x, y), y naming 2*N words
MulAddCall ==
    /\ pc = "idle"
    /\ \E x \in Bases, y \in {b \in Bases : b + 2 * N <= MemWords} :
          /\ call' = [fn |-> "muladd", x |-> x, y |-> y]
          /\ LET t == syscall_bn254_muladd(Now, x, y, target)
             IN  mem' = t.mem /\ log' = t.log
    /\ pc' = "done"
    /\ UNCHANGED <<target, entry>>

\* a guest program calls syscall_bn254_muladd_entrypoint(result, op, x, y, z)
EntrypointCall ==
    /\ pc = "idle"
    /\ \E result \in Bases, op \in OpSel, x \in Bases, y \in Bases, z \in Bases :
          call' = [fn |-> "entrypoint", result |-> result, op |-> op,
                   x |-> x, y |-> y, z |-> z]
    /\ pc' = "copy_x"
    /\ UNCHANGED <<target, mem, entry, log>>

\* core::ptr::copy(x_ptr, concat_ptr, N)
CopyX ==
    /\ pc = "copy_x"
    /\ LET t == EntryCopyX(Now, call) IN mem' = t.mem /\ log' = t.log
    /\ pc' = "copy_y"
    /\ UNCHANGED <<target, entry, call>>

\* core::ptr::copy(y as *const u32, concat_ptr.add(N), N)
CopyY ==
    /\ pc = "copy_y"
    /\ LET t == EntryCopyY(Now, call) IN mem' = t.mem /\ log' = t.log
    /\ pc' = "copy_z"
    /\ UNCHANGED <<target, entry, call>>

\* core::ptr::copy(z as *const u32, result_ptr, N)
CopyZ ==
    /\ pc = "copy_z"
    /\ LET t == EntryCopyZ(Now, call) IN mem' = t.mem /\ log' = t.log
    /\ pc' = "call_muladd"
    /\ UNCHANGED <<target, entry, call>>

\* syscall_bn254_muladd(result_ptr, concat_ptr), and the return
CallMulAdd ==
    /\ pc = "call_muladd"
    /\ LET t == EntryMulAdd(Now, call, target) IN mem' = t.mem /\ log' = t.log
    /\ pc' = "done"
    /\ UNCHANGED <<target, entry, call>>

Next ==
    \/ ScalarMulCall
    \/ ScalarMacCall
    \/ MulAddCall
    \/ EntrypointCall
    \/ CopyX
    \/ CopyY
    \/ CopyZ
    \/ CallMulAdd

Spec == Init /\ [][Next]_vars

-----------------------------------------------------------------------------
(* Vocabulary of the properties *)

IsEcall(e) == e.ev = "ecall"

\* the traps raised so far, in order
Traps == SelectSeq(log, IsEcall)

CallerAddr == 0 .. (MemWords - 1)

InBuffer(a, base) == a >= base /\ a < base + N

RECURSIVE ToInt(_)
\* the number a little-endian limb sequence stands for
ToInt(ws) ==
    IF ws = <<>> THEN 0 ELSE ws[1] + LimbBase * ToInt(Tail(ws))

\* the scaled 2^256
Modulus == LimbBase ^ N

RECURSIVE MulMod(_, _, _)
\* (a * b) mod m by doubling, no intermediate value reaches 2 * m
MulMod(a, b, m) ==
    IF b = 0 THEN 0
    ELSE (((2 * MulMod(a, b \div 2, m)) % m) + (b % 2) * (a % m)) % m

\* the small integer v in limb 0
Small(v) == [k \in 1 .. N |-> IF k = 1 THEN v ELSE 0]

InEntrypoint == call.fn = "entrypoint"

-----------------------------------------------------------------------------
(* Properties *)

C2_ResultIsMulAdd ==
    (InEntrypoint /\ pc = "done" /\ target = "zkvm")
    => /\ ToInt(Words(mem, call.result, N))
            = (MulMod(ToInt(Words(entry, call.x, N)),
                      ToInt(Words(entry, call.y, N)), Modulus)
                 + ToInt(Words(entry, call.z, N))) % Modulus
       /\ (/\ Words(entry, call.x, N) = Small(1)
           /\ Words(entry, call.y, N) = Small(2)
           /\ Words(entry, call.z, N) = Small(3))
          => Words(mem, call.result, N) = Small(5)

C2_Witness ==
    /\ InEntrypoint /\ pc = "done" /\ target = "zkvm"
    /\ Words(entry, call.x, N) = Small(1)
    /\ Words(entry, call.y, N) = Small(2)
    /\ Words(entry, call.z, N) = Small(3)
    /\ Words(mem, call.result, N) = <<5, 0, 0, 0, 0, 0, 0, 0>>

\* C3: syscall_bn254_scalar_mac(ret, a, b) raises exactly one trap, with the
\* operation code BN254_SCALAR_MAC and the operands ret, a, b.
C3_MacRaisesAccumulateTrap ==
    (call.fn = "scalar_mac" /\ pc = "done")
    => log = <<EcallEvent(BN254_SCALAR_MAC, <<call.ret, call.a, call.b>>)>>

\* C4: syscall_bn254_scalar_mul(p, q) raises exactly one trap, with the
\* operation code BN254_SCALAR_MUL, p first and q second; the binding
\* itself copies nothing, memory differs from call entry only by what the
\* host did in that trap.
C4_ScalarMulOneTrap ==
    (call.fn = "scalar_mul" /\ pc = "done")
    => /\ log = <<EcallEvent(BN254_SCALAR_MUL, <<call.p, call.q>>)>>
       /\ mem = Host(BN254_SCALAR_MUL, <<call.p, call.q>>, entry)
       /\ \A a \in Addr : ~InBuffer(a, call.p) => mem[a] = entry[a]

C4_Witness ==
    /\ call.fn = "scalar_mul" /\ pc = "done"
    /\ Len(Traps) = 1
    /\ Words(mem, call.p, N) # Words(entry, call.p, N)

\* C5: off the zkVM target syscall_bn254_muladd(x, y) raises no trap and
\* leaves every word as it was; on the zkVM target it raises exactly one
\* trap, with the operation code BN254_MULADD and the operands (x, y).
C5_MulAddGatedByTarget ==
    (call.fn = "muladd" /\ pc = "done")
    => IF target = "zkvm"
       THEN log = <<EcallEvent(BN254_MULADD, <<call.x, call.y>>)>>
       ELSE log = <<>> /\ mem = entry

C5_Witness ==
    /\ call.fn = "muladd" /\ pc = "done"
    /\ target = "other"
    /\ log = <<>>

\* C6 as stated: off the zkVM target the entrypoint raises no trap and
\* leaves every word of result, x, y and z as it was at call entry.
C6_NoTargetNoChange ==
    (InEntrypoint /\ pc = "done" /\ target = "other")
    => /\ Traps = <<>>
       /\ \A a \in CallerAddr : mem[a] = entry[a]

\* C6 amended: off the zkVM target the entrypoint raises no trap, result
\* ends holding the words z had at call entry, and every caller word
\* outside result is as it was at call entry.
C6_NoTargetResultHoldsZ ==
    (InEntrypoint /\ pc = "done" /\ target = "other")
    => /\ Traps = <<>>
       /\ Words(mem, call.result, N) = Words(entry, call.z, N)
       /\ \A a \in CallerAddr : ~InBuffer(a, call.result) => mem[a] = entry[a]

C6_Witness ==
    /\ InEntrypoint /\ pc = "done" /\ target = "other"
    /\ Traps = <<>>
    /\ Words(mem, call.result, N) # Words(entry, call.result, N)

\* C7: the operation codes are scalar-multiply = 0x00010180,
\* scalar-multiply-accumulate = 0x00010181 and multiply-add = 0x0001011F,
\* pairwise distinct, each an unsigned 32-bit word; every trap carries one.
C7_OperationCodes ==
    /\ BN254_SCALAR_MUL = 65920
    /\ BN254_SCALAR_MAC = 65921
    /\ BN254_MULADD = 65823
    /\ Cardinality({BN254_SCALAR_MUL, BN254_SCALAR_MAC, BN254_MULADD}) = 3
    /\ \A c \in {BN254_SCALAR_MUL, BN254_SCALAR_MAC, BN254_MULADD} :
          c >= 0 /\ c \div 65536 < 65536
    /\ \A i \in 1 .. Len(Traps) : Traps[i].code \in {65920, 65921, 65823}

C7_Witness ==
    /\ pc = "done"
    /\ Len(Traps) = 1
    /\ Traps[1].code = 65823

C9_OneTrapAfterCopies ==
    (InEntrypoint /\ target = "zkvm")
    => /\ pc # "done" => Traps = <<>>
       /\ pc = "done" =>
             /\ Len(Traps) = 1
             /\ log[Len(log)] = EcallEvent(BN254_MULADD, <<call.result, ScratchBase>>)
             /\ {log[i] : i \in 1 .. (Len(log) - 1)}
                   = {CopyEvent(call.x, ScratchBase, N),
                      CopyEvent(call.y, ScratchBase + N, N),
                      CopyEvent(call.z, call.result, N)}

C9_Witness ==
    /\ InEntrypoint /\ target = "zkvm" /\ pc = "done"
    /\ Len(log) = 4
    /\ IsEcall(log[4])

\* C10: a call of the entrypoint with any other operation selector, from
\* the same memory and with the same result, x, y, z, performs the same
\* copies and traps and ends with the same memory.
C10_SelectorIgnored ==
    (InEntrypoint /\ pc = "done")
    => \A o \in OpSel :
          syscall_bn254_muladd_entrypoint([mem |-> entry, log |-> <<>>],
                                          [call EXCEPT !.op = o], target) = Now

C10_Witness ==
    /\ InEntrypoint /\ pc = "done" /\ target = "zkvm"
    /\ call.op = MaxOp
    /\ Len(Traps) = 1
    /\ mem # entry

====
